---- MODULE Spec2Model ----
(***************************************************************************)
(* Model of openvpn-monitor.py: one invocation of main() per process, the  *)
(* persisted fingerprint file with its lock and temp sibling, the log, and *)
(* the external commands and the alert transport as nondeterministic       *)
(* environments.                                                           *)
(***************************************************************************)
EXTENDS Integers, Sequences, FiniteSets, TLC

\* ------------------------------------------------------------------ bounds
\* number of invocations of main() in one behaviour
MaxRuns == 2
\* number of invocations of main() that may overlap
MaxOverlap == 2
\* number of hex digits of a fingerprint (the real digest has 32)
DigestLen == 2

\* ------------------------------------------------------------------- text
\* Text is a sequence of one-character strings.
NL == "\n"
Whitespace == {" ", NL}
Alphabet == <<"0","1","2","3","4","5","6","7","8","9","a","b","c","d","e","f",
              " ", NL, "s", "l", "w", "i", "x", "@">>
HexDigits == <<"0","1","2","3","4","5","6","7","8","9","a","b","c","d","e","f">>

Code(c) == CHOOSE i \in 1..Len(Alphabet) : Alphabet[i] = c

RECURSIVE Pow(_, _)
Pow(b, n) == IF n = 0 THEN 1 ELSE b * Pow(b, n - 1)

\* str.lstrip() / str.rstrip() / str.strip(): drop surrounding whitespace
RECURSIVE lstrip(_)
lstrip(s) == IF s # <<>> /\ Head(s) \in Whitespace THEN lstrip(Tail(s)) ELSE s

RECURSIVE rstrip(_)
rstrip(s) ==
    IF s # <<>> /\ s[Len(s)] \in Whitespace
    THEN rstrip(SubSeq(s, 1, Len(s) - 1)) ELSE s

strip(s) == lstrip(rstrip(s))

\* str.rstrip("\n"): drop trailing newlines only
RECURSIVE rstrip_nl(_)
rstrip_nl(s) ==
    IF s # <<>> /\ s[Len(s)] = NL
    THEN rstrip_nl(SubSeq(s, 1, Len(s) - 1)) ELSE s

\* hex rendering of h with n digits, most significant first
RECURSIVE hexdigest(_, _)
hexdigest(h, n) ==
    IF n = 0 THEN <<>>
    ELSE Append(hexdigest(h \div 16, n - 1), HexDigits[(h % 16) + 1])

\* running digest of the characters of a text, DigestLen hex digits wide
RECURSIVE digest(_, _)
digest(h, s) ==
    IF s = <<>> THEN h
    ELSE digest((h * 31 + Code(Head(s))) % Pow(16, DigestLen), Tail(s))

\* md5_hex: a deterministic fixed-width hex digest of the text
md5_hex(data) == hexdigest(digest(7, data), DigestLen)

\* ------------------------------------------------------- command results
CommandResult(rc, out, err) == [returncode |-> rc, stdout |-> out, stderr |-> err]
NoResult == CommandResult(0 - 1, <<>>, <<>>)

\* Python's None, distinct from every text (texts hold one-character strings)
None == <<"None">>

\* what "echo status | nc HOST PORT" can return: two different status texts,
\* the first one again with a warning on stderr and a nonzero code, and a
\* refused connection (empty stdout)
StatusResults ==
    { CommandResult(0, <<"a", NL>>, <<>>),
      CommandResult(0, <<"b", NL>>, <<>>),
      CommandResult(1, <<"a", NL>>, <<"w", NL>>),
      CommandResult(1, <<>>, <<"e", NL>>) }
\* "systemctl status SERVICE": active, or inactive (code 3)
SvcResults ==
    { CommandResult(0, <<"s", NL>>, <<>>),
      CommandResult(3, <<"i", NL>>, <<>>) }
\* "echo load-stats | nc HOST PORT"
LoadResults ==
    { CommandResult(0, <<"l", NL>>, <<>>),
      CommandResult(1, <<>>, <<"e", NL>>) }
\* "systemctl restart SERVICE"
RestartResults ==
    { CommandResult(0, <<>>, <<>>),
      CommandResult(1, <<>>, <<"f", NL>>) }

\* values of OPENVPN_EMAIL_TO split at commas: unset, and one address with a
\* blank tail
RecipientLists ==
    { << <<>> >>,
      << <<" ", "x">>, <<" ">> >> }

\* str(returncode)
StrInt(n) == IF n < 0 THEN <<"-">> ELSE <<HexDigits[n + 1]>>

\* ------------------------------------------------------------------ files
File(t, r) == [exists |-> TRUE, text |-> t, readable |-> r]
NoFile == [exists |-> FALSE, text |-> <<>>, readable |-> FALSE]

\* the text write_last_md5 stores for a fingerprint
StateText(value) == value \o <<NL>>

\* state files an invocation can find: none, a stored fingerprint, an empty
\* (truncated) file, a file cut inside the fingerprint, a file that cannot be
\* read or decoded
InitialStateFiles ==
    { NoFile,
      File(StateText(md5_hex(<<"a", NL>>)), TRUE),
      File(StateText(md5_hex(<<>>)), TRUE),
      File(<<>>, TRUE),
      File(<<"7">>, TRUE),
      File(StateText(md5_hex(<<"a", NL>>)), FALSE) }

\* The environment of a behaviour: the results each command can give, the
\* state file the first invocation finds, the e-mail configuration, and how
\* the SMTP connection, login and delivery can end.
FullEnv ==
    [ status |-> StatusResults, svc |-> SvcResults, load |-> LoadResults,
      restart |-> RestartResults, files |-> InitialStateFiles,
      email_enabled |-> BOOLEAN, email_to |-> RecipientLists,
      credentials |-> BOOLEAN, connect |-> {"ok", "error"},
      login |-> {"ok", "unsupported", "auth_failed", "error"},
      send |-> {"ok", "error"} ]

\* a narrower environment for overlapping invocations
NarrowEnv ==
    [ status |-> { CommandResult(0, <<"a", NL>>, <<>>),
                   CommandResult(0, <<"b", NL>>, <<>>) },
      svc |-> { CommandResult(3, <<"i", NL>>, <<>>) },
      load |-> { CommandResult(1, <<>>, <<"e", NL>>) },
      restart |-> { CommandResult(1, <<>>, <<"f", NL>>) },
      files |-> { NoFile, File(StateText(md5_hex(<<"a", NL>>)), TRUE) },
      email_enabled |-> {TRUE}, email_to |-> { << <<" ", "x">>, <<" ">> >> },
      credentials |-> {TRUE}, connect |-> {"ok"}, login |-> {"ok"},
      send |-> {"error"} ]

\* the environment of a sequence of invocations
SeqEnv ==
    [ status |-> StatusResults,
      svc |-> { CommandResult(3, <<"i", NL>>, <<>>) },
      load |-> { CommandResult(0, <<"l", NL>>, <<>>) },
      restart |-> RestartResults,
      files |-> { NoFile, File(StateText(md5_hex(<<"a", NL>>)), TRUE),
                  File(<<>>, TRUE),
                  File(StateText(md5_hex(<<"a", NL>>)), FALSE) },
      email_enabled |-> BOOLEAN, email_to |-> { << <<" ", "x">>, <<" ">> >> },
      credentials |-> {TRUE}, connect |-> {"ok"}, login |-> {"auth_failed"},
      send |-> {"ok"} ]

IsFingerprint(t) ==
    /\ Len(t) = DigestLen
    /\ \A i \in 1..Len(t) : \E j \in 1..Len(HexDigits) : HexDigits[j] = t[i]

\* a state file holding one stored fingerprint line
WellFormed(f) ==
    /\ f.exists /\ f.readable
    /\ f.text # <<>> /\ f.text[Len(f.text)] = NL
    /\ IsFingerprint(SubSeq(f.text, 1, Len(f.text) - 1))

\* -------------------------------------------------------------------- log
Line(tag, val) == [tag |-> tag, val |-> val]

\* add_command_output(cmd, result)
add_command_output(cmd, result) ==
    <<Line("Command", <<cmd>>), Line("Return code", StrInt(result.returncode))>>
    \o (IF strip(result.stderr) # <<>>
        THEN <<Line("STDERR:", <<>>), Line("text", rstrip_nl(result.stderr))>>
        ELSE <<>>)
    \o <<Line("STDOUT:", <<>>), Line("text", rstrip_nl(result.stdout)), Line("", <<>>)>>

\* the diagnostic block main() builds on the unchanged path
diagnostic_text(md5, status, svc, load, restart) ==
    <<Line("separator", <<>>), Line("Timestamp", <<>>), Line("Condition", md5),
      Line("", <<>>)>>
    \o add_command_output("svc_status", svc)
    \o add_command_output("load_stats", load)
    \o add_command_output("status", status)
    \o <<Line("Action", <<"restart">>),
         Line("Restart return code", StrInt(restart.returncode))>>
    \o (IF strip(restart.stderr) # <<>>
        THEN <<Line("Restart STDERR:", <<>>), Line("text", rstrip_nl(restart.stderr))>>
        ELSE <<>>)
    \o (IF strip(restart.stdout) # <<>>
        THEN <<Line("Restart STDOUT:", <<>>), Line("text", rstrip_nl(restart.stdout))>>
        ELSE <<>>)
    \o <<Line("separator", <<>>), Line("", <<>>)>>

\* the line log_success writes
success_text(md5) == <<Line("SUCCESS probe md5_changed", md5)>>

\* text.endswith("\n"), for a text given as the lines that "\n".join puts
\* together: it ends with a newline when its last line is empty
endswith_nl(lines) == Len(lines) > 1 /\ lines[Len(lines)] = Line("", <<>>)

\* what one write on the log file carries: who wrote it, its shape, its
\* lines, and whether a newline of append_log's own follows them
Write(p, kind, lines, nl) == [by |-> p, kind |-> kind, lines |-> lines, added_nl |-> nl]

\* a log record as append_log completes it
Entry(p, kind, lines) == Write(p, kind, lines, ~endswith_nl(lines))

\* ------------------------------------------------------------------ state
VARIABLES
    state_file,   \* STATE_PATH
    tmp_file,     \* STATE_PATH.with_suffix(".tmp")
    lock_holder,  \* the invocation holding flock on the lock file, 0 if none
    log,          \* LOG_PATH: the records appended so far
    proc,         \* the locals of each invocation of main()
    env,          \* what the commands and the configuration can give
    installed     \* history: the canonical file as first found and every
                  \* complete file write_last_md5 was asked to put in its place

vars == <<state_file, tmp_file, lock_holder, log, proc, env, installed>>

InitProc ==
    [ pc |-> "idle",
      status_result |-> NoResult, current_md5 |-> None, last_md5 |-> None,
      svc_result |-> NoResult, load_result |-> NoResult,
      restart_result |-> NoResult,
      branch |-> "none",      \* the branch main() selected
      cmds |-> <<>>,          \* history: the commands run_cmd was called with
      found |-> NoFile,       \* history: the state file read_last_md5 met
      stored |-> NoFile,      \* history: the state file right after os.replace
      email_enabled |-> "unset",  \* EMAIL_ENABLED as send_email_alert met it
      email_to |-> <<>>,      \* the recipients main() passed to send_email_alert
      session |-> "none",     \* history: the SMTP session ("none", "open", "failed")
      recipients |-> <<>>,    \* send_email_alert's filtered recipients
      alert |-> "unset",      \* what send_email_alert returned
      exit |-> 0 - 1 ]        \* the process exit status

InitWith(n, e) ==
    /\ env = e
    /\ state_file \in e.files
    /\ tmp_file = NoFile
    /\ lock_holder = 0
    /\ log = <<>>
    /\ proc = [p \in 1..n |-> InitProc]
    /\ installed = {state_file}

Procs == DOMAIN proc

Init == InitWith(MaxOverlap, NarrowEnv)

InitSeq == InitWith(MaxRuns, SeqEnv)

InitRun == InitWith(1, FullEnv)

Terminated(p) == proc[p].pc \in {"done", "crashed", "killed"}

\* ---------------------------------------------------------------- file_lock
\* a lock that is granted whoever holds it
LockIgnored == TRUE

\* fcntl.flock(LOCK_EX) returns once no other open file holds the lock
LockFree == lock_holder = 0

\* ------------------------------------------------------------------- main
\* Decide with the comparison of the fingerprints turned round
DecideInverted(last, current) ==
    IF last = None THEN "bootstrap"
    ELSE IF current = last THEN "changed"
    ELSE "stuck"

\* Decide without the first-run test
DecideNoFirstRun(last, current) ==
    IF current # last THEN "changed" ELSE "stuck"

\* Decide with a branch of its own for a status query that gave no data
DecideNoData(last, current) ==
    IF last = None \/ current = md5_hex(<<>>) THEN "bootstrap"
    ELSE IF current # last THEN "changed"
    ELSE "stuck"

\* the branch main() takes for the stored and the current fingerprint
Decide(last, current) ==
    IF last = None THEN "bootstrap"
    ELSE IF current # last THEN "changed"
    ELSE "stuck"

\* where main() continues after read_last_md5 returned last
AfterRead(p, last, f) ==
    LET b == Decide(last, proc[p].current_md5) IN
    [proc EXCEPT ![p].last_md5 = last, ![p].found = f, ![p].branch = b,
                 ![p].pc = IF b = "stuck" THEN "svc" ELSE "w_lock"]

\* an uncaught exception leaves main(): traceback, exit status 1
Raise(p, cmd) ==
    [proc EXCEPT ![p].pc = "crashed", ![p].exit = 1,
                 ![p].cmds = Append(@, cmd)]

\* the status query fingerprinted over stdout and stderr together
RunStatusHashesStderr(p) ==
    /\ proc[p].pc = "idle"
    /\ \A q \in Procs : q < p => proc[q].pc # "idle"
    /\ \/ \E r \in env.status :
            proc' = [proc EXCEPT ![p].pc = "r_exists",
                                 ![p].status_result = r,
                                 ![p].current_md5 = md5_hex(r.stdout \o r.stderr),
                                 ![p].cmds = Append(@, "status")]
       \/ proc' = Raise(p, "status")
    /\ UNCHANGED <<state_file, tmp_file, lock_holder, log, env, installed>>

\* ensure_state_dir(), the status query and md5_hex of its stdout
RunStatus(p) ==
    /\ proc[p].pc = "idle"
    /\ \A q \in Procs : q < p => proc[q].pc # "idle"
    /\ \/ \E r \in env.status :
            proc' = [proc EXCEPT ![p].pc = "r_exists",
                                 ![p].status_result = r,
                                 ![p].current_md5 = md5_hex(r.stdout),
                                 ![p].cmds = Append(@, "status")]
       \/ proc' = Raise(p, "status")       \* subprocess.TimeoutExpired
    /\ UNCHANGED <<state_file, tmp_file, lock_holder, log, env, installed>>

\* read_last_md5: the existence test, made before the lock is taken
ReadExists(p) ==
    /\ proc[p].pc = "r_exists"
    /\ proc' = IF state_file.exists
               THEN [proc EXCEPT ![p].pc = "r_lock"]
               ELSE AfterRead(p, None, state_file)
    /\ UNCHANGED <<state_file, tmp_file, lock_holder, log, env, installed>>

\* read_last_md5: with file_lock(STATE_PATH)
ReadLock(p) ==
    /\ proc[p].pc = "r_lock"
    /\ LockFree
    /\ lock_holder' = p
    /\ proc' = [proc EXCEPT ![p].pc = "r_read"]
    /\ UNCHANGED <<state_file, tmp_file, log, env, installed>>

\* read_text without the strip(): the stored newline stays on the value
read_text_unstripped(f) == IF f.exists /\ f.readable THEN f.text ELSE None

\* what read_text().strip() inside the try gives for a file
read_text(f) == IF f.exists /\ f.readable THEN strip(f.text) ELSE None

\* file_lock without its finally clause: the read leaves the lock held
ReadTextKeepsLock(p) ==
    /\ proc[p].pc = "r_read"
    /\ lock_holder = p
    /\ lock_holder' = lock_holder
    /\ proc' = AfterRead(p, read_text(state_file), state_file)
    /\ UNCHANGED <<state_file, tmp_file, log, env, installed>>

\* read_last_md5: the read, the lock's release, and main()'s branching
ReadText(p) ==
    /\ proc[p].pc = "r_read"
    /\ lock_holder = p
    /\ lock_holder' = 0
    /\ proc' = AfterRead(p, read_text(state_file), state_file)
    /\ UNCHANGED <<state_file, tmp_file, log, env, installed>>

\* ---------------------------------------------------------- write_last_md5
WritePcs == {"w_open", "w_write", "w_replace", "w_unlock"}
\* where a kill is modelled: the temp file partly or fully written, not renamed
KillPcs == {"w_write", "w_replace"}

\* the state is reset after a restart instead of keeping the fingerprint
ValueToStoreReset(p) ==
    IF proc[p].branch = "stuck" THEN <<>> ELSE proc[p].current_md5

\* the value main() passes to write_last_md5 on each of its three branches
ValueToStore(p) == proc[p].current_md5

\* write_last_md5: with file_lock(STATE_PATH)
WriteLock(p) ==
    /\ proc[p].pc = "w_lock"
    /\ LockFree
    /\ lock_holder' = p
    /\ proc' = [proc EXCEPT ![p].pc = "w_open"]
    /\ UNCHANGED <<state_file, tmp_file, log, env, installed>>

\* write_text on STATE_PATH itself: the canonical file is emptied in place
WriteOpenInPlace(p) ==
    /\ proc[p].pc = "w_open"
    /\ state_file' = File(<<>>, TRUE)
    /\ tmp_file' = File(<<>>, TRUE)
    /\ proc' = [proc EXCEPT ![p].pc = "w_write"]
    /\ UNCHANGED <<lock_holder, log, env, installed>>

\* tmp.write_text: opening the temp file for writing creates or empties it
WriteOpen(p) ==
    /\ proc[p].pc = "w_open"
    /\ tmp_file' = File(<<>>, TRUE)
    /\ proc' = [proc EXCEPT ![p].pc = "w_write"]
    /\ UNCHANGED <<state_file, lock_holder, log, env, installed>>

\* tmp.write_text: the text reaches the temp file one character at a time
WriteChunk(p) ==
    LET target == StateText(ValueToStore(p))
        n == Len(tmp_file.text) + 1
    IN  /\ proc[p].pc = "w_write"
        /\ tmp_file' = File(SubSeq(target, 1, n), TRUE)
        /\ proc' = [proc EXCEPT ![p].pc =
                        IF n = Len(target) THEN "w_replace" ELSE "w_write"]
        /\ UNCHANGED <<state_file, lock_holder, log, env, installed>>

\* os.replace with its arguments exchanged: the canonical file is moved away
WriteReplaceReversed(p) ==
    /\ proc[p].pc = "w_replace"
    /\ state_file' = NoFile
    /\ tmp_file' = state_file
    /\ installed' = installed \cup {File(StateText(ValueToStore(p)), TRUE)}
    /\ proc' = [proc EXCEPT ![p].pc = "w_unlock", ![p].stored = NoFile]
    /\ UNCHANGED <<lock_holder, log, env>>

\* os.replace(tmp, STATE_PATH): one atomic rename
WriteReplace(p) ==
    /\ proc[p].pc = "w_replace"
    /\ state_file' = tmp_file
    /\ tmp_file' = NoFile
    /\ installed' = installed \cup {File(StateText(ValueToStore(p)), TRUE)}
    /\ proc' = [proc EXCEPT ![p].pc = "w_unlock", ![p].stored = tmp_file]
    /\ UNCHANGED <<lock_holder, log, env>>

\* the exit status main() returns on each branch
ExitCode(branch, restart) == IF branch = "stuck" THEN restart.returncode ELSE 0

\* os.chmod (best effort), the lock's release, and main()'s next statement
WriteUnlock(p) ==
    /\ proc[p].pc = "w_unlock"
    /\ lock_holder = p
    /\ lock_holder' = 0
    /\ proc' = IF proc[p].branch = "changed"
               THEN [proc EXCEPT ![p].pc = "log_success"]
               ELSE [proc EXCEPT ![p].pc = "done",
                        ![p].exit = ExitCode(proc[p].branch, proc[p].restart_result)]
    /\ UNCHANGED <<state_file, tmp_file, log, env, installed>>

\* the process is killed inside write_last_md5; the kernel drops its flock
Kill(p) ==
    /\ proc[p].pc \in KillPcs
    /\ lock_holder' = IF lock_holder = p THEN 0 ELSE lock_holder
    /\ proc' = [proc EXCEPT ![p].pc = "killed", ![p].exit = 137]
    /\ UNCHANGED <<state_file, tmp_file, log, env, installed>>

\* ------------------------------------------------------------- append_log
\* append_log on an unbuffered stream: every f.write is a write of its own
append_log_unbuffered(l, p, kind, lines) ==
    IF endswith_nl(lines) THEN Append(l, Write(p, kind, lines, FALSE))
    ELSE Append(Append(l, Write(p, kind, lines, FALSE)), Write(p, "newline", <<>>, TRUE))

\* f.write(text) and, unless text ends with a newline, f.write("\n") go to
\* the stream's buffer; closing the stream puts them into the file, opened
\* for appending, as one write
append_log(l, p, kind, lines) ==
    Append(l, Write(p, kind, lines, ~endswith_nl(lines)))

\* log_success(current_md5) and return 0
LogSuccess(p) ==
    /\ proc[p].pc = "log_success"
    /\ log' = append_log(log, p, "success", success_text(proc[p].current_md5))
    /\ proc' = [proc EXCEPT ![p].pc = "done",
                    ![p].exit = ExitCode(proc[p].branch, proc[p].restart_result)]
    /\ UNCHANGED <<state_file, tmp_file, lock_holder, env, installed>>

\* --------------------------------------------------------- unchanged path
\* run_cmd(svc_status_cmd)
SvcStatus(p) ==
    /\ proc[p].pc = "svc"
    /\ \/ \E r \in env.svc :
            proc' = [proc EXCEPT ![p].pc = "load", ![p].svc_result = r,
                                 ![p].cmds = Append(@, "svc_status")]
       \/ proc' = Raise(p, "svc_status")
    /\ UNCHANGED <<state_file, tmp_file, lock_holder, log, env, installed>>

\* run_cmd(load_stats_cmd)
LoadStats(p) ==
    /\ proc[p].pc = "load"
    /\ \/ \E r \in env.load :
            proc' = [proc EXCEPT ![p].pc = "restart", ![p].load_result = r,
                                 ![p].cmds = Append(@, "load_stats")]
       \/ proc' = Raise(p, "load_stats")
    /\ UNCHANGED <<state_file, tmp_file, lock_holder, log, env, installed>>

\* run_cmd(restart_cmd)
Restart(p) ==
    /\ proc[p].pc = "restart"
    /\ \/ \E r \in env.restart :
            proc' = [proc EXCEPT ![p].pc = "log_block", ![p].restart_result = r,
                                 ![p].cmds = Append(@, "restart")]
       \/ proc' = Raise(p, "restart")
    /\ UNCHANGED <<state_file, tmp_file, lock_holder, log, env, installed>>

\* append_log(diagnostic_text), and the call send_email_alert(.., EMAIL_TO)
\* under the configured EMAIL_ENABLED
AppendBlock(p) ==
    /\ proc[p].pc = "log_block"
    /\ log' = append_log(log, p, "block",
                  diagnostic_text(proc[p].current_md5, proc[p].status_result,
                                  proc[p].svc_result, proc[p].load_result,
                                  proc[p].restart_result))
    /\ \E enabled \in env.email_enabled, rs \in env.email_to :
          proc' = [proc EXCEPT ![p].pc = "email",
                               ![p].email_enabled = IF enabled THEN "True" ELSE "False",
                               ![p].email_to = rs]
    /\ UNCHANGED <<state_file, tmp_file, lock_holder, env, installed>>

\* ------------------------------------------------------- send_email_alert
\* the test without the strip(): only an empty list counts as no recipients
NoRecipientsUnstripped(rs) == rs = <<>>

\* not recipients or not any(r.strip() for r in recipients)
NoRecipients(rs) == rs = <<>> \/ \A i \in 1..Len(rs) : strip(rs[i]) = <<>>

\* [r.strip() for r in recipients if r.strip()]
RECURSIVE FilterRecipients(_)
FilterRecipients(rs) ==
    IF rs = <<>> THEN <<>>
    ELSE (IF strip(Head(rs)) # <<>> THEN <<strip(Head(rs))>> ELSE <<>>)
         \o FilterRecipients(Tail(rs))

\* send_email_alert returns to main(), which goes on to write_last_md5
AlertReturns(p, value) ==
    [proc EXCEPT ![p].alert = value, ![p].pc = "w_lock"]

\* no except clause: the failure leaves send_email_alert and main()
AlertFailurePropagates(p) ==
    /\ log' = log
    /\ proc' = [proc EXCEPT ![p].pc = "crashed", ![p].exit = 1]

\* the except clause: the failure is logged and False returned
AlertFails(p) ==
    /\ log' = append_log(log, p, "note", <<Line("Failed to send email alert", <<>>)>>)
    /\ proc' = [AlertReturns(p, "False") EXCEPT
                    ![p].session = IF @ = "none" THEN "failed" ELSE @]

\* the configuration checks and the connection to the SMTP server
EmailCheck(p) ==
    /\ proc[p].pc = "email"
    /\ \E creds \in env.credentials, outcome \in env.connect :
         LET enabled == proc[p].email_enabled = "True"
             rs == proc[p].email_to
         IN
         IF ~enabled THEN
            /\ proc' = AlertReturns(p, "False")
            /\ log' = log
         ELSE IF NoRecipients(rs) THEN
            /\ log' = append_log(log, p, "note",
                          <<Line("Email alert skipped: No recipients configured", <<>>)>>)
            /\ proc' = AlertReturns(p, "False")
         ELSE IF outcome = "error" THEN     \* SMTP(), SMTP_SSL() or starttls() raises
            AlertFails(p)
         ELSE
            /\ proc' = [proc EXCEPT ![p].recipients = FilterRecipients(rs),
                           ![p].session = "open",
                           ![p].pc = IF creds THEN "email_login" ELSE "email_send"]
            /\ log' = log
    /\ UNCHANGED <<state_file, tmp_file, lock_holder, env, installed>>

\* server.login whose rejected authentication is logged and ends the alert
EmailLoginAborts(p) ==
    /\ proc[p].pc = "email_login"
    /\ \E outcome \in env.login :
         CASE outcome = "ok" ->
                /\ proc' = [proc EXCEPT ![p].pc = "email_send"]
                /\ log' = log
           [] outcome = "unsupported" ->
                /\ log' = append_log(log, p, "note",
                     <<Line("Warning: SMTP server does not support authentication", <<>>)>>)
                /\ proc' = AlertReturns(p, "False")
           [] outcome = "auth_failed" ->
                /\ log' = append_log(log, p, "note",
                     <<Line("Warning: SMTP authentication failed", <<>>)>>)
                /\ proc' = AlertReturns(p, "False")
           [] OTHER -> AlertFails(p)
    /\ UNCHANGED <<state_file, tmp_file, lock_holder, env, installed>>

\* server.login with the configured credentials
EmailLogin(p) ==
    /\ proc[p].pc = "email_login"
    /\ \E outcome \in env.login :
         CASE outcome = "ok" ->
                /\ proc' = [proc EXCEPT ![p].pc = "email_send"]
                /\ log' = log
           [] outcome = "unsupported" ->        \* SMTPNotSupportedError
                /\ log' = append_log(log, p, "note",
                     <<Line("Warning: SMTP server does not support authentication", <<>>)>>)
                /\ proc' = [proc EXCEPT ![p].pc = "email_send"]
           [] outcome = "auth_failed" ->        \* SMTPAuthenticationError
                /\ log' = append_log(log, p, "note",
                     <<Line("Warning: SMTP authentication failed", <<>>)>>)
                /\ proc' = [proc EXCEPT ![p].pc = "email_send"]
           [] OTHER -> AlertFails(p)            \* any other exception
    /\ UNCHANGED <<state_file, tmp_file, lock_holder, env, installed>>

\* server.sendmail, server.quit and the success line
EmailSend(p) ==
    /\ proc[p].pc = "email_send"
    /\ \E outcome \in env.send :
         IF outcome = "ok" THEN
            /\ log' = append_log(log, p, "note",
                 <<Line("Email alert sent successfully to", proc[p].recipients)>>)
            /\ proc' = AlertReturns(p, "True")
         ELSE AlertFails(p)
    /\ UNCHANGED <<state_file, tmp_file, lock_holder, env, installed>>

\* ---------------------------------------------------------- specifications
\* a step of a started invocation
Step ==
    \/ \E p \in Procs : ReadExists(p)
    \/ \E p \in Procs : ReadLock(p)
    \/ \E p \in Procs : ReadText(p)
    \/ \E p \in Procs : WriteLock(p)
    \/ \E p \in Procs : WriteOpen(p)
    \/ \E p \in Procs : WriteChunk(p)
    \/ \E p \in Procs : WriteReplace(p)
    \/ \E p \in Procs : WriteUnlock(p)
    \/ \E p \in Procs : Kill(p)
    \/ \E p \in Procs : LogSuccess(p)
    \/ \E p \in Procs : SvcStatus(p)
    \/ \E p \in Procs : LoadStats(p)
    \/ \E p \in Procs : Restart(p)
    \/ \E p \in Procs : AppendBlock(p)
    \/ \E p \in Procs : EmailCheck(p)
    \/ \E p \in Procs : EmailLogin(p)
    \/ \E p \in Procs : EmailSend(p)

\* invocations may overlap
Next == (\E p \in Procs : RunStatus(p)) \/ Step

Spec == Init /\ [][Next]_vars

\* invocations follow one another: one starts when the earlier ones have ended
RunStatusSeq(p) == (\A q \in Procs : q < p => Terminated(q)) /\ RunStatus(p)

NextSeq == (\E p \in Procs : RunStatusSeq(p)) \/ Step

SpecSeq == InitSeq /\ [][NextSeq]_vars

\* one invocation, in the full environment
SpecRun == InitRun /\ [][Next]_vars

\* the statements of invocation p: each external call returns or times out,
\* and flock returns when the lock is free
StepOf(p) ==
    \/ RunStatus(p) \/ ReadExists(p) \/ ReadLock(p) \/ ReadText(p)
    \/ WriteLock(p) \/ WriteOpen(p) \/ WriteChunk(p) \/ WriteReplace(p)
    \/ WriteUnlock(p) \/ LogSuccess(p)
    \/ SvcStatus(p) \/ LoadStats(p) \/ Restart(p) \/ AppendBlock(p)
    \/ EmailCheck(p) \/ EmailLogin(p) \/ EmailSend(p)

\* overlapping invocations, each of them scheduled again and again until it
\* has ended (a kill may end it, but need not happen)
SpecLive == Init /\ [][Next]_vars /\ \A p \in 1..MaxOverlap : WF_vars(StepOf(p))

\* ------------------------------------------------------------- properties
\* main() has read the stored fingerprint and selected its branch
Decided(p) == proc[p].branch # "none"

\* the records invocation p appended to the log, in order
RECURSIVE EntriesOf(_, _)
EntriesOf(l, p) ==
    IF l = <<>> THEN <<>>
    ELSE (IF Head(l).by = p THEN <<Head(l)>> ELSE <<>>) \o EntriesOf(Tail(l), p)

\* the diagnostic blocks among them
BlocksOf(l, p) == SelectSeq(EntriesOf(l, p), LAMBDA e : e.kind = "block")

HasLine(lines, tag, val) ==
    \E i \in 1..Len(lines) : lines[i] = Line(tag, val)

\* a block shows a command's outputs (a blank output has nothing to show)
ShowsOutputs(lines, result) ==
    /\ strip(result.stdout) # <<>> => HasLine(lines, "text", rstrip_nl(result.stdout))
    /\ strip(result.stderr) # <<>> => HasLine(lines, "text", rstrip_nl(result.stderr))

\* the state file that holds fingerprint fp
Holding(fp) == File(StateText(fp), TRUE)

\* C1: a run that read fingerprint F0 and whose status stdout has fingerprint
\* F0 ends having issued exactly the supervisor-status, load-stats and restart
\* commands after the status query, having appended exactly one diagnostic
\* block that shows the outputs of all four commands, having left F0 in the
\* state file, and with the restart's return code as exit status.
C1_StuckDetection ==
    \A p \in Procs :
        ( /\ proc[p].pc \in {"done", "crashed"}
          /\ Decided(p)
          /\ proc[p].last_md5 # None
          /\ proc[p].last_md5 = proc[p].current_md5 )
        => /\ proc[p].pc = "done"
           /\ proc[p].cmds = <<"status", "svc_status", "load_stats", "restart">>
           /\ Len(BlocksOf(log, p)) = 1
           /\ \A r \in {proc[p].status_result, proc[p].svc_result,
                        proc[p].load_result, proc[p].restart_result} :
                  ShowsOutputs(BlocksOf(log, p)[1].lines, r)
           /\ proc[p].stored = Holding(proc[p].last_md5)
           /\ proc[p].exit = proc[p].restart_result.returncode

\* C2: a run that read a stored value F0 and whose status stdout has another
\* fingerprint issues no command besides the status query (no restart),
\* and ends with exit status 0, exactly one log record, the success line
\* carrying the new fingerprint, and the new fingerprint in the state file.
C2_HealthyChange ==
    \A p \in Procs :
        ( /\ Decided(p)
          /\ proc[p].last_md5 # None
          /\ proc[p].last_md5 # proc[p].current_md5 )
        => /\ proc[p].cmds = <<"status">>
           /\ proc[p].pc # "crashed"
           /\ BlocksOf(log, p) = <<>>
           /\ proc[p].pc = "done" =>
                /\ proc[p].exit = 0
                /\ EntriesOf(log, p) =
                       <<Entry(p, "success", success_text(proc[p].current_md5))>>
                /\ proc[p].stored = Holding(proc[p].current_md5)
                /\ read_text(proc[p].stored) = proc[p].current_md5

C2_Witness ==
    \E p \in Procs :
        /\ proc[p].pc = "done" /\ proc[p].exit = 0
        /\ proc[p].last_md5 # None
        /\ proc[p].last_md5 # proc[p].current_md5
        /\ Len(EntriesOf(log, p)) = 1
        /\ state_file = Holding(proc[p].current_md5)

\* C3: a run that finds no state file, whatever its status query returned,
\* appends nothing to the log, issues no further command, and ends with exit
\* status 0 and the state file present, holding the fingerprint of its status
\* stdout.
C3_Bootstrap ==
    \A p \in Procs :
        (Decided(p) /\ ~proc[p].found.exists)
        => /\ proc[p].cmds = <<"status">>
           /\ proc[p].pc # "crashed"
           /\ EntriesOf(log, p) = <<>>
           /\ proc[p].pc = "done" =>
                /\ proc[p].exit = 0
                /\ proc[p].stored = Holding(md5_hex(proc[p].status_result.stdout))
                /\ state_file.exists

C3_Witness ==
    \E p \in Procs :
        /\ proc[p].pc = "done" /\ proc[p].exit = 0
        /\ ~proc[p].found.exists
        /\ proc[p].status_result.returncode # 0
        /\ state_file = Holding(md5_hex(proc[p].status_result.stdout))
        /\ log = <<>>

\* the invocation before p returned from the unchanged path
PreviousRemediated(p) ==
    /\ p > 1
    /\ proc[p - 1].pc = "done"
    /\ proc[p - 1].branch = "stuck"

\* C4 (as claimed): when a run has remediated with fingerprint F and the next
\* run observes status stdout with fingerprint F again, that next run does
\* not take the unchanged path.
C4_DelayedRetrigger ==
    \A p \in Procs :
        ( /\ PreviousRemediated(p)
          /\ Decided(p)
          /\ proc[p].current_md5 = proc[p - 1].current_md5 )
        => proc[p].branch # "stuck"

\* C4 (amended): when a run has remediated with fingerprint F and returned,
\* it has left F as the stored fingerprint, and the next run, observing status
\* stdout with fingerprint F again, reads F and takes the unchanged path
\* again at once: no unchanged cycle passes without remediation starting.
C4_ImmediateRetrigger ==
    \A p \in Procs :
        PreviousRemediated(p)
        => /\ proc[p - 1].stored = Holding(proc[p - 1].current_md5)
           /\ ( Decided(p) /\ proc[p].current_md5 = proc[p - 1].current_md5 )
                => /\ proc[p].last_md5 = proc[p - 1].current_md5
                   /\ proc[p].branch = "stuck"
                   /\ proc[p].pc = "w_lock" => proc[p].alert # "unset"

C4_Witness ==
    \E p \in Procs :
        /\ PreviousRemediated(p)
        /\ proc[p].current_md5 = proc[p - 1].current_md5
        /\ proc[p].pc = "done"
        /\ "restart" \in {proc[p].cmds[i] : i \in 1..Len(proc[p].cmds)}
        /\ Len(BlocksOf(log, p)) = 1

\* p has read the stored fingerprint and its write_last_md5 has not yet
\* replaced the state file
InCycle(p) ==
    /\ Decided(p)
    /\ proc[p].pc \notin {"w_unlock", "log_success", "done", "crashed", "killed"}

\* C5 (as claimed): no invocation reads the stored fingerprint between another
\* invocation's read_last_md5 and that invocation's following write_last_md5:
\* two invocations are never both between their read and their write.
C5_CyclesDoNotInterleave ==
    \A p, q \in Procs : (p # q /\ InCycle(p)) => ~InCycle(q)

\* p is inside the with file_lock(...) body of read_last_md5 or write_last_md5
InLockedSection(p) == proc[p].pc \in {"r_read"} \cup WritePcs

\* C5 (amended): each single read_last_md5 or write_last_md5 body runs with
\* the exclusive lock held, so no invocation reads or writes the stored
\* fingerprint while another is inside a read or a write; the lock does not
\* span the read-compare-write cycle, and cycles may interleave.
C5_OperationsSerialized ==
    /\ \A p \in Procs : InLockedSection(p) => lock_holder = p
    /\ \A p, q \in Procs : (p # q /\ InLockedSection(p)) => ~InLockedSection(q)
    /\ lock_holder # 0 => InLockedSection(lock_holder)

C5_Witness ==
    \E p, q \in Procs :
        /\ p # q
        /\ proc[p].pc \in {"w_write", "w_replace"}
        /\ proc[q].pc \in {"r_lock", "w_lock"}
        /\ InCycle(p) /\ (proc[q].pc = "w_lock" => InCycle(q))

\* C6: a timeout of the status query, the load-stats query, the supervisor
\* status or the restart never ends the run as a crash: every run that ends
\* has selected a terminal branch, completed its state write and returned.
C6_TimeoutIsNotFatal ==
    \A p \in Procs :
        proc[p].pc \in {"done", "crashed"}
        => /\ proc[p].pc = "done"
           /\ proc[p].branch \in {"bootstrap", "changed", "stuck"}
           /\ proc[p].stored = Holding(proc[p].current_md5)

\* C7: the canonical state file is at every moment the file first found or a
\* complete file some write_last_md5 was asked to store, also while a write
\* is under way or was killed before its rename; so every read returns the
\* complete old or the complete new value, never part of one.
C7_AtomicReplace ==
    /\ state_file \in installed
    /\ \A p \in Procs :
          Decided(p) => /\ proc[p].found \in installed
                        /\ proc[p].last_md5 \in {read_text(f) : f \in installed}

\* a reader holds the lock and is about to read while a killed write's temp
\* file, partly or fully written, was never renamed
C7_Witness ==
    \E p, q \in Procs :
        /\ proc[p].pc = "killed"
        /\ tmp_file.exists
        /\ tmp_file # state_file
        /\ proc[q].pc = "r_read"
        /\ state_file.exists

\* p's read_last_md5 or write_last_md5 has begun to touch the state file or
\* its temp sibling (at "r_lock" the existence test has been made)
TouchingFiles(p) == proc[p].pc \in {"r_lock", "r_read"} \cup WritePcs

\* C8: read_last_md5 and write_last_md5 hold the exclusive lock from before
\* their first access to the state file until they are done with it.
C8_LockBeforeAccess ==
    \A p \in Procs : TouchingFiles(p) => lock_holder = p

\* the notes send_email_alert wrote for p
NotesOf(l, p) == SelectSeq(EntriesOf(l, p), LAMBDA e : e.kind = "note")

FailureNote == <<Line("Failed to send email alert", <<>>)>>

\* p's run is on the unchanged path and has appended its diagnostic block
BlockAppended(p) == BlocksOf(log, p) # <<>>

\* C9: on the unchanged path, however send_email_alert ends (disabled, no
\* recipients, connection, login or delivery failure, success), the run does
\* not crash, the restart has been issued, the diagnostic block in the log is
\* the one appended before the alert, a failure is returned as False, and the
\* run returns the restart's return code with its fingerprint stored.
C9_AlertIsolation ==
    \A p \in Procs :
        BlockAppended(p)
        => /\ proc[p].pc # "crashed"
           /\ proc[p].cmds = <<"status", "svc_status", "load_stats", "restart">>
           /\ BlocksOf(log, p) =
                  <<Entry(p, "block",
                       diagnostic_text(proc[p].current_md5, proc[p].status_result,
                                       proc[p].svc_result, proc[p].load_result,
                                       proc[p].restart_result))>>
           /\ EntriesOf(log, p)[1].kind = "block"
           /\ ( \E i \in 1..Len(NotesOf(log, p)) :
                    NotesOf(log, p)[i].lines = FailureNote )
                => proc[p].alert = "False"
           /\ proc[p].alert = "True"
                => NotesOf(log, p)[Len(NotesOf(log, p))].lines[1].tag =
                       "Email alert sent successfully to"
           /\ proc[p].pc = "done"
                => /\ proc[p].alert \in {"True", "False"}
                   /\ proc[p].exit = proc[p].restart_result.returncode
                   /\ proc[p].stored = Holding(proc[p].current_md5)

\* a run whose alert failed after a rejected login, and whose restart failed
C9_Witness ==
    \E p \in Procs :
        /\ proc[p].pc = "done"
        /\ proc[p].alert = "False"
        /\ Len(NotesOf(log, p)) = 2
        /\ NotesOf(log, p)[2].lines = FailureNote
        /\ proc[p].exit = 1
        /\ Len(BlocksOf(log, p)) = 1
        /\ state_file = Holding(proc[p].current_md5)

\* C10: a run that meets a missing, unreadable or corrupt state file (one
\* that does not hold a stored fingerprint line) gets None from
\* read_last_md5 and takes the first-run path.
C10_BadStateIsNoBaseline ==
    \A p \in Procs :
        (Decided(p) /\ ~WellFormed(proc[p].found))
        => /\ proc[p].last_md5 = None
           /\ proc[p].branch = "bootstrap"

\* the invocation before p has selected its branch and ended, by returning
\* or by an uncaught exception
PreviousEnded(p) ==
    /\ p > 1
    /\ proc[p - 1].pc \in {"done", "crashed"}
    /\ Decided(p - 1)

\* C11: of two consecutive runs whose status queries give the same stdout,
\* empty or not, the second reads the fingerprint of that stdout and takes
\* the unchanged path; when it returns it has run the supervisor-status,
\* load-stats and restart commands, appended one diagnostic block and exits
\* with the restart's return code. Empty stdout has no branch of its own.
C11_EmptyOutputStuck ==
    \A p \in Procs :
        ( /\ PreviousEnded(p)
          /\ Decided(p)
          /\ proc[p].status_result.stdout = proc[p - 1].status_result.stdout )
        => /\ proc[p].last_md5 = md5_hex(proc[p].status_result.stdout)
           /\ proc[p].branch = "stuck"
           /\ proc[p].pc = "done"
                => /\ proc[p].cmds = <<"status", "svc_status", "load_stats", "restart">>
                   /\ Len(BlocksOf(log, p)) = 1
                   /\ proc[p].exit = proc[p].restart_result.returncode

\* two runs with empty status stdout, the second one remediated and returned
C11_Witness ==
    \E p \in Procs :
        /\ PreviousEnded(p)
        /\ proc[p - 1].status_result.stdout = <<>>
        /\ proc[p].status_result.stdout = <<>>
        /\ proc[p].pc = "done"
        /\ proc[p].branch = "stuck"
        /\ proc[p].cmds = <<"status", "svc_status", "load_stats", "restart">>
        /\ Len(BlocksOf(log, p)) = 1
        /\ proc[p].exit = proc[p].restart_result.returncode

\* C12: on the unchanged path the steps follow in this order: the
\* supervisor-status and load-stats queries, the diagnostic record's append
\* to the log, the restart, the alert, the write of the fingerprint. So once
\* the restart command has run the record is in the log, the alert is not
\* attempted before the restart, and the fingerprint is not written before
\* the alert has returned.
C12_RemediationOrder ==
    \A p \in Procs :
        proc[p].branch = "stuck"
        => /\ proc[p].cmds = SubSeq(<<"status", "svc_status", "load_stats", "restart">>,
                                   1, Len(proc[p].cmds))
           /\ proc[p].restart_result # NoResult => BlockAppended(p)
           /\ (proc[p].alert # "unset" \/ NotesOf(log, p) # <<>>)
                => proc[p].restart_result # NoResult
           /\ proc[p].pc \in WritePcs \cup {"w_lock", "done", "killed"}
                => proc[p].alert # "unset"

HasRemediated(p) ==
    \/ Len(proc[p].cmds) > 1
    \/ proc[p].svc_result # NoResult
    \/ proc[p].load_result # NoResult
    \/ proc[p].restart_result # NoResult
    \/ \E i \in 1..Len(log) : log[i].by = p /\ log[i].kind \in {"block", "note"}
    \/ proc[p].alert # "unset"
    \/ proc[p].pc \in {"svc", "load", "restart", "log_block", "email",
                        "email_login", "email_send"}

\* C14: however invocations interleave, an invocation runs the supervisor
\* status, load-stats or restart command, appends a diagnostic block or calls
\* send_email_alert only if read_last_md5 gave it a fingerprint and that
\* fingerprint equals the fingerprint of its own status stdout (compared as
\* it enters that path); an invocation that read no fingerprint or another
\* one does none of these.
C14_RemediationOnlyWhenStuck ==
    \A p \in Procs :
        /\ HasRemediated(p)
            => /\ Decided(p)
               /\ proc[p].last_md5 # None
               /\ proc[p].last_md5 = proc[p].current_md5
               /\ proc[p].pc = "svc"
                    => proc[p].current_md5 = md5_hex(proc[p].status_result.stdout)
        /\ (Decided(p) /\ (proc[p].last_md5 = None
                            \/ proc[p].last_md5 # proc[p].current_md5))
            => /\ proc[p].cmds = <<"status">>
               /\ \A i \in 1..Len(log) : log[i].by = p => log[i].kind = "success"
               /\ proc[p].alert = "unset"

\* two overlapping invocations read the same stored fingerprint: one saw the
\* same status text and remediated, the other saw another text and returned
\* without remediating
C14_Witness ==
    \E p, q \in Procs :
        /\ p # q
        /\ proc[p].found = proc[q].found
        /\ proc[p].last_md5 = proc[p].current_md5
        /\ proc[p].restart_result # NoResult
        /\ BlockAppended(p)
        /\ proc[p].alert # "unset"
        /\ proc[q].pc = "done"
        /\ proc[q].last_md5 # None
        /\ proc[q].last_md5 # proc[q].current_md5
        /\ proc[q].cmds = <<"status">>

\* p and q met the same state file and their status queries gave the same
\* stdout
SameObservation(p, q) ==
    /\ Decided(p) /\ Decided(q)
    /\ proc[p].found = proc[q].found
    /\ proc[p].status_result.stdout = proc[q].status_result.stdout

\* C15: two runs that start from the same stored state and whose status
\* queries return the same stdout, whatever their stderr and return codes,
\* compute the same fingerprint, read the same stored value, select the same
\* branch and put the same state file in place.
C15_StdoutOnly ==
    \A p, q \in Procs :
        SameObservation(p, q)
        => /\ proc[p].current_md5 = proc[q].current_md5
           /\ proc[p].last_md5 = proc[q].last_md5
           /\ proc[p].branch = proc[q].branch
           /\ (proc[p].stored # NoFile /\ proc[q].stored # NoFile)
                => proc[p].stored = proc[q].stored

\* two runs from the same state with the same stdout, one with return code 0
\* and no stderr, the other with a nonzero code and a warning on stderr
C15_Witness ==
    \E p, q \in Procs :
        /\ SameObservation(p, q)
        /\ proc[p].status_result.returncode # proc[q].status_result.returncode
        /\ proc[p].status_result.stderr # proc[q].status_result.stderr
        /\ proc[p].pc = "done" /\ proc[q].pc = "done"
        /\ proc[p].branch = "stuck" /\ proc[q].branch = "stuck"
        /\ proc[p].stored = proc[q].stored

\* C16: with every external call returning or timing out, all the overlapping
\* invocations end, and each ends once: by returning, by an uncaught exception
\* or by a kill, after which it takes no further step. The lock is held only
\* inside the body of read_last_md5 or write_last_md5 and never by an
\* invocation that has ended, also when the holder was killed inside the
\* locked section; so no invocation waits for the lock for ever (one that
\* did would never end).
C16_TerminationAndLockRelease ==
    /\ <>(\A p \in 1..MaxOverlap : Terminated(p))
    /\ [](\A p \in 1..MaxOverlap : Terminated(p) => lock_holder # p)
    /\ [](lock_holder # 0 => InLockedSection(lock_holder))
    /\ [][\A p \in 1..MaxOverlap : Terminated(p) => proc'[p] = proc[p]]_vars

\* an invocation was killed inside write_last_md5, leaving its temp file,
\* and another one then got the lock for its own write
C16_Witness ==
    \E p, q \in Procs :
        /\ proc[p].pc = "killed"
        /\ tmp_file.exists
        /\ proc[q].pc = "w_open"
        /\ lock_holder = q

\* a write on the log that is one whole record of the invocation that made
\* it: its success line, its diagnostic block from the opening to the closing
\* separator, or one note, ending with a newline
WholeRecord(e) ==
    /\ e.by \in Procs
    /\ endswith_nl(e.lines) \/ e.added_nl
    /\ \/ e.kind = "success" /\ e.lines = success_text(proc[e.by].current_md5)
       \/ /\ e.kind = "block"
          /\ e.lines[1] = Line("separator", <<>>)
          /\ e.lines[3] = Line("Condition", proc[e.by].current_md5)
          /\ e.lines[Len(e.lines) - 1] = Line("separator", <<>>)
          /\ e.lines[Len(e.lines)] = Line("", <<>>)
       \/ e.kind = "note" /\ Len(e.lines) = 1

SkipsAlert(p) ==
    \/ proc[p].email_enabled = "False"
    \/ \A i \in 1..Len(proc[p].email_to) : strip(proc[p].email_to[i]) = <<>>

SkippedNote == <<Line("Email alert skipped: No recipients configured", <<>>)>>

\* C18 (as claimed): called with notification disabled or with no recipient
\* after trimming, send_email_alert returns False having opened no session
\* and changed nothing: not the state file, its temp sibling or the lock, and
\* not the log.
C18_NoOp ==
    [][\A p \in Procs :
          (proc[p].pc = "email" /\ SkipsAlert(p) /\ proc'[p] # proc[p])
          => /\ proc' = AlertReturns(p, "False")
             /\ proc'[p].session = "none"
             /\ UNCHANGED <<state_file, tmp_file, lock_holder, installed>>
             /\ log' = log]_vars

\* C18 (amended): called with notification disabled or with no recipient
\* after trimming, send_email_alert returns False having opened no session
\* and changed neither the state file, its temp sibling nor the lock; with
\* notification disabled the log is unchanged too, with notification enabled
\* and no recipient exactly one line, "Email alert skipped: No recipients
\* configured", is appended to the log.
C18_SkippedAlert ==
    [][\A p \in Procs :
          (proc[p].pc = "email" /\ SkipsAlert(p) /\ proc'[p] # proc[p])
          => /\ proc' = AlertReturns(p, "False")
             /\ proc'[p].session = "none"
             /\ UNCHANGED <<state_file, tmp_file, lock_holder, installed>>
             /\ log' = IF proc[p].email_enabled = "False" THEN log
                       ELSE Append(log, Entry(p, "note", SkippedNote))]_vars

\* a run whose alert was skipped for want of recipients, with the line in the
\* log
C18_Witness ==
    \E p \in Procs :
        /\ proc[p].alert = "False"
        /\ proc[p].email_enabled = "True"
        /\ SkipsAlert(p)
        /\ proc[p].session = "none"
        /\ NotesOf(log, p) = <<Entry(p, "note", SkippedNote)>>
        /\ proc[p].pc = "done"

UnsupportedNote == <<Line("Warning: SMTP server does not support authentication", <<>>)>>
AuthFailedNote == <<Line("Warning: SMTP authentication failed", <<>>)>>

\* server.login was called for p and the server rejected the authentication
\* as unsupported or as failed
LoginRejected(p) ==
    /\ NotesOf(log, p) # <<>>
    /\ NotesOf(log, p)[1].lines \in {UnsupportedNote, AuthFailedNote}

\* C19: when the login with the configured credentials is rejected as
\* unsupported or as failed, send_email_alert logs a warning and goes on: it
\* does not return or raise before the send has been attempted, the session
\* stays open for it, and it returns True exactly when the send succeeds
\* (False, with the failure logged, when the send fails).
C19_LoginRejectionNotFatal ==
    \A p \in Procs :
        LoginRejected(p)
        => LET n == NotesOf(log, p) IN
           /\ proc[p].pc # "crashed"
           /\ proc[p].session = "open"
           /\ Len(n) <= 2
           /\ Len(n) = 1 => (proc[p].pc = "email_send" /\ proc[p].alert = "unset")
           /\ Len(n) = 2
                => \/ /\ n[2].lines = <<Line("Email alert sent successfully to",
                                              proc[p].recipients)>>
                      /\ proc[p].alert = "True"
                   \/ /\ n[2].lines = FailureNote
                      /\ proc[p].alert = "False"

\* a run whose login failed, whose message was sent all the same, and whose
\* send_email_alert returned True
C19_Witness ==
    \E p \in Procs :
        /\ NotesOf(log, p) # <<>>
        /\ NotesOf(log, p)[1].lines = AuthFailedNote
        /\ Len(NotesOf(log, p)) = 2
        /\ NotesOf(log, p)[2].lines[1].tag = "Email alert sent successfully to"
        /\ proc[p].alert = "True"
        /\ proc[p].pc = "done"
====
